---- MODULE Spec2Model ----
(***************************************************************************)
(* Pinboard Band: the pin grid (HexagonalTriangleGrid.tsx), the graph      *)
(* analysis (core/musicMapping.ts), the sequence generators               *)
(* (core/sequenceGenerators.ts), the per-track MidiScheduler               *)
(* (core/midiScheduler.ts) and the App handlers that wire them (App.tsx).  *)
(*                                                                         *)
(* Strings are sequences of UTF-16 code units, so that `a.id < b.id`,      *)
(* template literals and the /r(\d+)c(\d+)/ match are computed, not        *)
(* assumed.  null is the empty sequence where a string is expected.        *)
(***************************************************************************)
EXTENDS Integers, Sequences, FiniteSets, TLC

VARIABLES
    pc,              \* pure-function harness: "call" before, "done" after
    arg,             \* pure-function harness: the arguments
    ret,             \* pure-function harness: the returned value
    tracks,          \* App: useState<Track[]>
    selectedTrackId, \* App: useState(0)
    isPlaying,       \* App: useState(false)
    schedulers,      \* App: the MidiScheduler objects, one per track
    live,            \* Tone.Transport: per track, the patterns started and not stopped
    selectedNodeId,  \* HexagonalTriangleGrid (main instance): useState<string|null>
    pendingPlays,    \* handlePlay calls suspended at `await Tone.start()`
    lastOp           \* the UI event handled last and whether it called onEdgesChange

vars == <<pc, arg, ret, tracks, selectedTrackId, isPlaying, schedulers, live,
          selectedNodeId, pendingPlays, lastOp>>

harnessVars == <<pc, arg, ret>>
appVars == <<tracks, selectedTrackId, isPlaying, schedulers, live,
             selectedNodeId, pendingPlays, lastOp>>

(***************************************************************************)
(* Strings                                                                 *)
(***************************************************************************)
Null == <<>>
Undefined == <<-1>>

CH_r == 114
CH_c == 99
CH_dash == 45
CH_0 == 48

IsDigit(ch) == ch >= 48 /\ ch <= 57

RECURSIVE NumToStr(_)
NumToStr(n) ==
    IF n < 10 THEN <<CH_0 + n>>
    ELSE Append(NumToStr(n \div 10), CH_0 + (n % 10))

RECURSIVE StrLess(_, _)
StrLess(a, b) ==
    IF b = <<>> THEN FALSE
    ELSE IF a = <<>> THEN TRUE
    ELSE IF Head(a) # Head(b) THEN Head(a) < Head(b)
    ELSE StrLess(Tail(a), Tail(b))

\* e, with v evaluated first (TLC defers a LET definition until it is used)
Strict(v, e) == IF v = v THEN e ELSE e

RECURSIVE Flat(_)
Flat(ss) == IF ss = <<>> THEN <<>> ELSE Head(ss) \o Flat(Tail(ss))

SeqRange(s) == {s[i] : i \in DOMAIN s}

Abs(n) == IF n < 0 THEN -n ELSE n

RECURSIVE Gcd(_, _)
Gcd(a, b) == IF b = 0 THEN a ELSE Gcd(b, a % b)

(***************************************************************************)
(* Grid geometry (HexagonalTriangleGrid.tsx)                               *)
(*                                                                         *)
(* x is kept in pixels (every x of the grid is a whole number).            *)
(* y = MARGIN + row * VERTICAL_SPACING is irrational; a node keeps yv, the  *)
(* coefficient of VERTICAL_SPACING, and lengths are compared through       *)
(* their squares: VERTICAL_SPACING^2 = SIDE_LENGTH^2 * 3 / 4.               *)
(***************************************************************************)
ROW_COUNTS == <<4, 5, 6, 7, 6, 5, 4>>
SIDE_LENGTH == 48
HORIZONTAL_SPACING == SIDE_LENGTH
VERTICAL_SPACING_SQ == (SIDE_LENGTH * SIDE_LENGTH * 3) \div 4
MARGIN == SIDE_LENGTH

RECURSIVE SeqMax(_)
SeqMax(s) ==
    IF Len(s) = 1 THEN s[1]
    ELSE LET m == SeqMax(Tail(s)) IN IF s[1] > m THEN s[1] ELSE m

MAX_COUNT == SeqMax(ROW_COUNTS)

createEdgeKey(a, b) ==
    IF StrLess(a.id, b.id) THEN a.id \o <<CH_dash>> \o b.id
    ELSE b.id \o <<CH_dash>> \o a.id

GridEdge(a, b) == [key |-> createEdgeKey(a, b), from |-> a, to |-> b]

rowNodes(rowIndex) ==
    LET count == ROW_COUNTS[rowIndex + 1]
        offset == ((MAX_COUNT - count) * HORIZONTAL_SPACING) \div 2
    IN [k \in 1..count |->
          [id |-> <<CH_r>> \o NumToStr(rowIndex) \o <<CH_c>> \o NumToStr(k - 1),
           x |-> MARGIN + offset + (k - 1) * HORIZONTAL_SPACING,
           yv |-> rowIndex,
           row |-> rowIndex,
           col |-> k - 1]]

nodesByRow == [r \in 1..Len(ROW_COUNTS) |-> rowNodes(r - 1)]

\* rowNodes.forEach((node, idx) => { const next = rowNodes[idx + 1]; ... })
rowPairs(r) ==
    [i \in 1..(Len(nodesByRow[r]) - 1) |-> <<nodesByRow[r][i], nodesByRow[r][i + 1]>>]

\* betweenPairs with the rule of a growing row applied to every pair of rows
betweenPairs_growOnly(r) ==
    LET upperRow == nodesByRow[r]
        lowerRow == nodesByRow[r + 1]
        n == IF Len(upperRow) < Len(lowerRow) THEN Len(upperRow) ELSE Len(lowerRow) - 1
    IN [j \in 1..(2 * n) |->
          LET col == (j + 1) \div 2
          IN IF j % 2 = 1 THEN <<upperRow[col], lowerRow[col]>>
             ELSE <<upperRow[col], lowerRow[col + 1]>>]

\* the three adjacency rules between row `r` and row `r + 1` (1-based here)
betweenPairs(r) ==
    LET upperRow == nodesByRow[r]
        lowerRow == nodesByRow[r + 1]
    IN IF Len(lowerRow) = Len(upperRow) + 1
       THEN [j \in 1..(2 * Len(upperRow)) |->
               LET col == (j + 1) \div 2
               IN IF j % 2 = 1 THEN <<upperRow[col], lowerRow[col]>>
                  ELSE <<upperRow[col], lowerRow[col + 1]>>]
       ELSE IF Len(lowerRow) + 1 = Len(upperRow)
       THEN [j \in 1..(2 * Len(lowerRow)) |->
               LET col == (j + 1) \div 2
               IN IF j % 2 = 1 THEN <<upperRow[col], lowerRow[col]>>
                  ELSE <<upperRow[col + 1], lowerRow[col]>>]
       ELSE [j \in 1..(2 * Len(upperRow) - 1) |->
               LET col == (j + 1) \div 2
               IN IF j % 2 = 1 THEN <<upperRow[col], lowerRow[col]>>
                  ELSE <<upperRow[col + 1], lowerRow[col]>>]

\* addEdge: skip a key already present, else push {key, from: a, to: b}
RECURSIVE addEdges(_, _)
addEdges(acc, pairs) ==
    IF pairs = <<>> THEN acc
    ELSE LET e == GridEdge(Head(pairs)[1], Head(pairs)[2])
         IN IF \E i \in DOMAIN acc : acc[i].key = e.key
            THEN addEdges(acc, Tail(pairs))
            ELSE addEdges(Append(acc, e), Tail(pairs))

createGrid ==
    [nodesByRow |-> nodesByRow,
     edges |-> addEdges(<<>>,
                 Flat([r \in 1..Len(ROW_COUNTS) |-> rowPairs(r)])
                 \o Flat([r \in 1..(Len(ROW_COUNTS) - 1) |-> betweenPairs(r)]))]

edges == createGrid.edges
allNodes == Flat(createGrid.nodesByRow)
AllNodeSet == SeqRange(allNodes)
baseEdgeKeys == {edges[i].key : i \in DOMAIN edges}

\* nodeMap = new Map(allNodes.map((node) => [node.id, node]))
nodeMap ==
    [id \in {allNodes[i].id : i \in DOMAIN allNodes} |->
        LET idx == {i \in DOMAIN allNodes : allNodes[i].id = id}
        IN allNodes[CHOOSE i \in idx : \A j \in idx : j <= i]]

\* coordinateKey(x, y) = `${x.toFixed(6)},${y.toFixed(6)}`: the pair itself,
\* the coordinates of the grid being apart by whole pixels / whole rows
coordinateKey(x, yv) == <<x, yv>>

\* nodeCoordinateMap = new Map(allNodes.map((node) => [coordinateKey(node.x, node.y), node]));
\* a later entry replaces an earlier one with the same key
nodeCoordinateMap ==
    [k \in {coordinateKey(allNodes[i].x, allNodes[i].yv) : i \in DOMAIN allNodes} |->
        LET idx == {i \in DOMAIN allNodes : coordinateKey(allNodes[i].x, allNodes[i].yv) = k}
        IN allNodes[CHOOSE i \in idx : \A j \in idx : j <= i]]

\* Math.hypot(dx, dy) squared, dy given as a coefficient of VERTICAL_SPACING
Hypot2(dx, dyv) == dx * dx + VERTICAL_SPACING_SQ * dyv * dyv

(***************************************************************************)
(* createDirectionKey / directionKeyFromNodes: the unit vector rounded to  *)
(* 6 decimals.  Two vectors between grid nodes that are not parallel       *)
(* differ by more than 0.01 in their unit vectors, and parallel ones round *)
(* to the same 6 decimals, so the key is the direction itself: the vector  *)
(* in units of (HORIZONTAL_SPACING / 2, VERTICAL_SPACING) divided by its   *)
(* gcd.  null (zero length) is Null.                                       *)
(***************************************************************************)
createDirectionKey(dx, dyv) ==
    IF Hypot2(dx, dyv) = 0 THEN Null
    ELSE LET hx == (2 * dx) \div HORIZONTAL_SPACING
             g == Gcd(Abs(hx), Abs(dyv))
         IN <<hx \div g, dyv \div g>>

directionKeyFromNodes(from, to) == createDirectionKey(to.x - from.x, to.yv - from.yv)

\* the vector of the edge at position i of `edges`
edgeDx(i) == edges[i].to.x - edges[i].from.x
edgeDyv(i) == edges[i].to.yv - edges[i].from.yv

\* the positions whose forward or backward key is `key`
directionInfoHits(key) ==
    {i \in DOMAIN edges : createDirectionKey(edgeDx(i), edgeDyv(i)) = key
                          \/ createDirectionKey(-edgeDx(i), -edgeDyv(i)) = key}

\* what `if (key && !map.has(key)) map.set(key, info)` leaves under `key`
\* after edges.forEach: the info of the first edge that sets it
directionInfoAt(key, i) ==
    IF createDirectionKey(edgeDx(i), edgeDyv(i)) = key
    THEN [dx |-> edgeDx(i), dyv |-> edgeDyv(i), length2 |-> Hypot2(edgeDx(i), edgeDyv(i))]
    ELSE [dx |-> -edgeDx(i), dyv |-> -edgeDyv(i), length2 |-> Hypot2(edgeDx(i), edgeDyv(i))]

directionInfoMap ==
    [key \in ({createDirectionKey(edgeDx(i), edgeDyv(i)) : i \in DOMAIN edges}
              \cup {createDirectionKey(-edgeDx(i), -edgeDyv(i)) : i \in DOMAIN edges})
             \ {Null} |->
        directionInfoAt(key, CHOOSE i \in directionInfoHits(key) :
                                 \A j \in directionInfoHits(key) : i <= j)]

Invalid == [valid |-> FALSE, segments |-> <<>>]

\* the for loop of getEdgeSegments, from step i with `current` and `segments`
RECURSIVE walkSegments(_, _, _, _, _, _)
walkSegments(i, steps, current, direction, segments, to) ==
    IF i >= steps
    THEN IF current.id # to.id THEN Invalid
         ELSE [valid |-> TRUE, segments |-> segments]
    ELSE IF coordinateKey(current.x + direction.dx, current.yv + direction.dyv)
                \notin DOMAIN nodeCoordinateMap
    THEN Invalid
    ELSE IF createEdgeKey(current,
                nodeCoordinateMap[coordinateKey(current.x + direction.dx,
                                                current.yv + direction.dyv)])
                \notin baseEdgeKeys
    THEN Invalid
    ELSE walkSegments(i + 1, steps,
             nodeCoordinateMap[coordinateKey(current.x + direction.dx,
                                             current.yv + direction.dyv)],
             direction,
             Append(segments,
                 GridEdge(current,
                     nodeCoordinateMap[coordinateKey(current.x + direction.dx,
                                                     current.yv + direction.dyv)])),
             to)

\* steps = Math.round(totalLength / direction.length), rejected when
\* steps <= 0 or |steps - stepsFloat| > 1e-6: the ratio of two lengths along
\* one direction is rational with a denominator below 13, so it passes
\* exactly when totalLength^2 = steps^2 * length^2 for a whole steps >= 1
MaxGridSteps == 2 * MAX_COUNT

wholeSteps(totalLength2, length2) ==
    {k \in 1..MaxGridSteps : k * k * length2 = totalLength2}

\* getEdgeSegments from `const totalLength` on
segmentsAlong(from, to) ==
    IF wholeSteps(Hypot2(to.x - from.x, to.yv - from.yv),
                  directionInfoMap[directionKeyFromNodes(from, to)].length2) = {}
    THEN Invalid
    ELSE walkSegments(0,
             CHOOSE k \in wholeSteps(Hypot2(to.x - from.x, to.yv - from.yv),
                        directionInfoMap[directionKeyFromNodes(from, to)].length2) : TRUE,
             from, directionInfoMap[directionKeyFromNodes(from, to)], <<>>, to)

\* getEdgeSegments that answers a direction the grid does not have with an
\* empty chain
getEdgeSegments_offGridEmpty(from, to) ==
    IF directionKeyFromNodes(from, to) = Null THEN Invalid
    ELSE IF directionKeyFromNodes(from, to) \notin DOMAIN directionInfoMap
    THEN [valid |-> TRUE, segments |-> <<>>]
    ELSE segmentsAlong(from, to)

getEdgeSegments(from, to) ==
    IF directionKeyFromNodes(from, to) = Null THEN Invalid
    ELSE IF directionKeyFromNodes(from, to) \notin DOMAIN directionInfoMap THEN Invalid
    ELSE segmentsAlong(from, to)

canCreateEdge(from, to) == getEdgeSegments(from, to).valid

(***************************************************************************)
(* Graph analysis (core/musicMapping.ts)                                   *)
(*                                                                         *)
(* A Map<string, Set<string>> iterates in insertion order: an adjacency    *)
(* map is a sequence of [key, nbrs], nbrs a sequence without repetition.   *)
(***************************************************************************)
adjHas(adj, id) == \E i \in DOMAIN adj : adj[i].key = id
adjIndex(adj, id) == CHOOSE i \in DOMAIN adj : adj[i].key = id
\* adj.get(node) ?? []
adjGet(adj, id) == IF adjHas(adj, id) THEN adj[adjIndex(adj, id)].nbrs ELSE <<>>
\* if (!adj.has(id)) adj.set(id, new Set())
adjEnsure(adj, id) == IF adjHas(adj, id) THEN adj ELSE Append(adj, [key |-> id, nbrs |-> <<>>])
\* adj.get(a)!.add(b)
adjAdd(adj, a, b) ==
    LET i == adjIndex(adj, a)
    IN IF b \in SeqRange(adj[i].nbrs) THEN adj
       ELSE [adj EXCEPT ![i].nbrs = Append(@, b)]

RECURSIVE buildAdjacencyFrom(_, _)
buildAdjacencyFrom(adj, es) ==
    IF es = <<>> THEN adj
    ELSE LET e == Head(es)
             a1 == adjEnsure(adj, e.from.id)
             a2 == adjEnsure(a1, e.to.id)
             a3 == adjAdd(a2, e.from.id, e.to.id)
             a4 == adjAdd(a3, e.to.id, e.from.id)
         IN buildAdjacencyFrom(a4, Tail(es))

buildAdjacency(es) == buildAdjacencyFrom(<<>>, es)

\* dfs(node, visited, path) with the shared variable `longest` threaded through;
\* dfsEach is the `for (const next of adj.get(node) ?? [])` loop from index i
RECURSIVE dfs(_, _, _, _, _)
RECURSIVE dfsEach(_, _, _, _, _, _)
\* dfs that also replaces `longest` by a path of the same length
dfs_lastWins(adj, node, visited, path, longest) ==
    LET visited1 == visited \cup {node}
        path1 == Append(path, node)
        longest1 == IF Len(path1) >= Len(longest) THEN path1 ELSE longest
    IN Strict(longest1, dfsEach(adj, adjGet(adj, node), 1, visited1, path1, longest1))

dfs(adj, node, visited, path, longest) ==
    LET visited1 == visited \cup {node}
        path1 == Append(path, node)
        longest1 == IF Len(path1) > Len(longest) THEN path1 ELSE longest
    IN Strict(longest1, dfsEach(adj, adjGet(adj, node), 1, visited1, path1, longest1))

dfsEach(adj, nbrs, i, visited, path, longest) ==
    IF i > Len(nbrs) THEN longest
    ELSE LET next == nbrs[i]
             longest1 == IF next \notin visited
                         THEN dfs(adj, next, visited, path, longest)
                         ELSE longest
         IN Strict(longest1, dfsEach(adj, nbrs, i + 1, visited, path, longest1))

\* for (const start of adj.keys()) dfs(start, new Set(), [])
RECURSIVE longestTrailFrom(_, _, _)
longestTrailFrom(adj, k, longest) ==
    IF k > Len(adj) THEN longest
    ELSE LET longest1 == dfs(adj, adj[k].key, {}, <<>>, longest)
         IN Strict(longest1, longestTrailFrom(adj, k + 1, longest1))

\* longestTrail searching from the first key only
longestTrail_firstStart(adj) ==
    IF adj = <<>> THEN <<>> ELSE dfs(adj, adj[1].key, {}, <<>>, <<>>)

longestTrail(adj) == longestTrailFrom(adj, 1, <<>>)

\* path[i] of a JavaScript array (0-based): undefined outside the array
arrayAt(path, i) == IF i >= 0 /\ i < Len(path) THEN path[i + 1] ELSE Undefined

\* the while loop of pingPongToLength
RECURSIVE pingPongLoop(_, _, _, _, _)
\* the loop going back to index 0 after the last index instead of reversing
pingPongLoop_wrapAround(path, targetLength, result, forward, i) ==
    IF ~(Len(result) < targetLength) THEN result
    ELSE pingPongLoop(path, targetLength, Append(result, arrayAt(path, i)), forward,
                      (i + 1) % Len(path))

pingPongLoop(path, targetLength, result, forward, i) ==
    IF ~(Len(result) < targetLength) THEN result
    ELSE LET result1 == Append(result, arrayAt(path, i))
             i1 == IF forward THEN i + 1 ELSE i - 1
             forward1 == IF i1 = Len(path) - 1 THEN FALSE
                         ELSE IF i1 = 0 THEN TRUE
                         ELSE forward
         IN pingPongLoop(path, targetLength, result1, forward1, i1)

\* pingPongToLength emitting one entry too many
pingPongToLength_offByOne(path, targetLength) ==
    IF Len(path) = 0 THEN <<>>
    ELSE pingPongLoop(path, targetLength + 1, <<>>, TRUE, 0)

pingPongToLength(path, targetLength) ==
    IF Len(path) = 0 THEN <<>>
    ELSE pingPongLoop(path, targetLength, <<>>, TRUE, 0)

\* Map<string, number> read only through get(id) ?? 0: a function on the ids seen
mapGet(m, id) == IF id \in DOMAIN m THEN m[id] ELSE 0
mapSet(m, id, v) == [k \in DOMAIN m \cup {id} |-> IF k = id THEN v ELSE m[k]]

RECURSIVE computeDegreeMapFrom(_, _)
computeDegreeMapFrom(degree, es) ==
    IF es = <<>> THEN degree
    ELSE LET e == Head(es)
             d1 == mapSet(degree, e.from.id, mapGet(degree, e.from.id) + 1)
             d2 == mapSet(d1, e.to.id, mapGet(d1, e.to.id) + 1)
         IN computeDegreeMapFrom(d2, Tail(es))

computeDegreeMap(es) == computeDegreeMapFrom(<<>>, es)

(***************************************************************************)
(* Note mapping and sequence generators (core/sequenceGenerators.ts)       *)
(***************************************************************************)
\* assets/pin_note_map.json, `layout`: one row of pitches per grid row
noteMapLayout ==
    [r \in 1..Len(ROW_COUNTS) |-> [k \in 1..ROW_COUNTS[r] |-> 48 + 2 * (r - 1) + (k - 1)]]

NoNote == -1

\* getNoteFromNode(row, col): number | null
getNoteFromNode(row, col) ==
    IF row < 0 \/ row >= Len(noteMapLayout) THEN NoNote
    ELSE LET rowData == noteMapLayout[row + 1]
         IN IF col < 0 \/ col >= Len(rowData) THEN NoNote
            ELSE rowData[col + 1]

\* the length of the run of digits of s that starts at (1-based) position p
RECURSIVE digitRun(_, _)
digitRun(s, p) ==
    IF p <= Len(s) /\ IsDigit(s[p]) THEN 1 + digitRun(s, p + 1) ELSE 0

\* parseInt of a string of digits
RECURSIVE parseInt(_)
parseInt(ds) ==
    IF ds = <<>> THEN 0
    ELSE 10 * parseInt(SubSeq(ds, 1, Len(ds) - 1)) + (ds[Len(ds)] - CH_0)

\* id.match(/r(\d+)c(\d+)/): the leftmost p with 'r', digits, 'c', digits
parseNodeId(id) ==
    LET matches(p) ==
            /\ id[p] = CH_r
            /\ digitRun(id, p + 1) >= 1
            /\ p + 1 + digitRun(id, p + 1) <= Len(id)
            /\ id[p + 1 + digitRun(id, p + 1)] = CH_c
            /\ digitRun(id, p + 2 + digitRun(id, p + 1)) >= 1
        ps == {p \in DOMAIN id : matches(p)}
    IN IF ps = {} THEN [row |-> 0, col |-> 0]
       ELSE LET p == CHOOSE q \in ps : \A q2 \in ps : q <= q2
                n1 == digitRun(id, p + 1)
                n2 == digitRun(id, p + 2 + n1)
            IN [row |-> parseInt(SubSeq(id, p + 1, p + n1)),
                col |-> parseInt(SubSeq(id, p + 2 + n1, p + 1 + n1 + n2))]

Rest == [type |-> "null"]
SEQUENCE_LENGTH == 64

\* rhythmEvent with the rest threshold one too low
rhythmEvent_restBelowTwo(d) ==
    IF d < 2 THEN Rest
    ELSE IF d <= 3 THEN [type |-> "drum", hit |-> "kick"]
    ELSE IF d = 4 THEN [type |-> "drum", hit |-> "snare"]
    ELSE IF d = 5 THEN [type |-> "drum", hit |-> "clap"]
    ELSE [type |-> "drum", hit |-> "hihat"]

rhythmEvent(d) ==
    IF d <= 2 THEN Rest
    ELSE IF d = 3 THEN [type |-> "drum", hit |-> "kick"]
    ELSE IF d = 4 THEN [type |-> "drum", hit |-> "snare"]
    ELSE IF d = 5 THEN [type |-> "drum", hit |-> "clap"]
    ELSE IF d >= 6 THEN [type |-> "drum", hit |-> "hihat"]
    ELSE Rest

\* generateRhythmSequence without the resampling of the trail
generateRhythmSequence_noResample(es) ==
    LET nodeOrder == longestTrail(buildAdjacency(es))
        degreeMap == computeDegreeMap(es)
    IN [sequence |-> [i \in DOMAIN nodeOrder |-> rhythmEvent(mapGet(degreeMap, nodeOrder[i]))],
        nodeOrder |-> nodeOrder]

generateRhythmSequence(es) ==
    LET adj == buildAdjacency(es)
        path == longestTrail(adj)
        nodeOrder == pingPongToLength(path, SEQUENCE_LENGTH)
        degreeMap == computeDegreeMap(es)
    IN [sequence |-> [i \in DOMAIN nodeOrder |-> rhythmEvent(mapGet(degreeMap, nodeOrder[i]))],
        nodeOrder |-> nodeOrder]

\* phraseEvent with velocity d / 6, not capped at 1
phraseEvent_uncapped(id, d) ==
    IF d <= 2 THEN Rest
    ELSE IF getNoteFromNode(parseNodeId(id).row, parseNodeId(id).col) # NoNote
    THEN [type |-> "note", note |-> getNoteFromNode(parseNodeId(id).row, parseNodeId(id).col),
          velocity |-> [num |-> d, den |-> 6]]
    ELSE Rest

\* velocity: Math.min(1, d / 6), kept as the fraction num / 6
phraseEvent(id, d) ==
    IF d <= 2 THEN Rest
    ELSE LET rc == parseNodeId(id)
             note == getNoteFromNode(rc.row, rc.col)
         IN IF note # NoNote
            THEN [type |-> "note", note |-> note,
                  velocity |-> [num |-> IF d < 6 THEN d ELSE 6, den |-> 6]]
            ELSE Rest

generatePhraseSequence(es) ==
    LET adj == buildAdjacency(es)
        path == longestTrail(adj)
        nodeOrder == pingPongToLength(path, SEQUENCE_LENGTH)
        degreeMap == computeDegreeMap(es)
    IN [sequence |-> [i \in DOMAIN nodeOrder |-> phraseEvent(nodeOrder[i], mapGet(degreeMap, nodeOrder[i]))],
        nodeOrder |-> nodeOrder]

\* Math.abs(dot) > 0.999 for the unit directions of two edges: with the
\* vectors in units of (HORIZONTAL_SPACING / 2, VERTICAL_SPACING / sqrt 3),
\* u . v = hx1 hx2 + 3 dy1 dy2 and |u|^2 = hx^2 + 3 dy^2; the test is
\* squared, 0.999^2 = 998001 / 1000000
\* the test passing only for edges on one straight line with the first edge
sameDirection_sameLineOnly(e, first) ==
    /\ (e.to.x - e.from.x) * (first.to.yv - first.from.yv)
          = (first.to.x - first.from.x) * (e.to.yv - e.from.yv)
    /\ (e.from.x - first.from.x) * (first.to.yv - first.from.yv)
          = (first.to.x - first.from.x) * (e.from.yv - first.from.yv)

sameDirection(e, first) ==
    LET hx1 == (2 * (e.to.x - e.from.x)) \div HORIZONTAL_SPACING
        dy1 == e.to.yv - e.from.yv
        hx2 == (2 * (first.to.x - first.from.x)) \div HORIZONTAL_SPACING
        dy2 == first.to.yv - first.from.yv
        dot == hx1 * hx2 + 3 * dy1 * dy2
    IN 1000000 * dot * dot > 998001 * (hx1 * hx1 + 3 * dy1 * dy1) * (hx2 * hx2 + 3 * dy2 * dy2)

\* edges.forEach: push the edge to the first group it is parallel to, else
\* open a new group
RECURSIVE groupLines(_, _)
groupLines(lines, es) ==
    IF es = <<>> THEN lines
    ELSE LET edge == Head(es)
             found == {g \in DOMAIN lines : sameDirection(edge, lines[g][1])}
         IN IF found # {}
            THEN LET g == CHOOSE h \in found : \A h2 \in found : h <= h2
                 IN groupLines([lines EXCEPT ![g] = Append(@, edge)], Tail(es))
            ELSE groupLines(Append(lines, <<edge>>), Tail(es))

\* Math.hypot of an edge; every length that occurs is a whole number of pixels
Hypot(dx, dyv) == CHOOSE k \in 0..Hypot2(dx, dyv) : k * k = Hypot2(dx, dyv)

RECURSIVE totalLength(_)
totalLength(group) ==
    IF group = <<>> THEN 0
    ELSE Hypot(Head(group).to.x - Head(group).from.x, Head(group).to.yv - Head(group).from.yv)
         + totalLength(Tail(group))

\* the groups left in the order they were formed
sortByLength_unsorted(infos) == infos

\* Array.prototype.sort((a, b) => b.totalLength - a.totalLength): stable,
\* longest first
RECURSIVE sortByLength(_)
sortByLength(infos) ==
    IF infos = <<>> THEN <<>>
    ELSE LET rest == sortByLength(SubSeq(infos, 1, Len(infos) - 1))
             x == infos[Len(infos)]
             before == {i \in DOMAIN rest : rest[i].totalLength >= x.totalLength}
             n == Cardinality(before)
         IN SubSeq(rest, 1, n) \o <<x>> \o SubSeq(rest, n + 1, Len(rest))

\* pins = new Set<number>() filled from [e.from, e.to] of every edge of the group
RECURSIVE chordPins(_, _)
chordPins(pins, nodes) ==
    IF nodes = <<>> THEN pins
    ELSE LET note == getNoteFromNode(Head(nodes).row, Head(nodes).col)
         IN IF note # NoNote /\ note \notin SeqRange(pins)
            THEN chordPins(Append(pins, note), Tail(nodes))
            ELSE chordPins(pins, Tail(nodes))

\* nodeOrder with one entry per chord, the chord's first pitch
generateChordSequence_onePerChord(es) ==
    IF Len(es) = 0 THEN [sequence |-> <<>>, nodeOrder |-> <<>>]
    ELSE LET lines == groupLines(<<>>, es)
             lineInfo == [g \in DOMAIN lines |->
                             [group |-> lines[g], totalLength |-> totalLength(lines[g])]]
             sorted == sortByLength(lineInfo)
             top4 == SubSeq(sorted, 1, IF Len(sorted) < 4 THEN Len(sorted) ELSE 4)
             chords == [c \in DOMAIN top4 |->
                           chordPins(<<>>, Flat([k \in DOMAIN top4[c].group |->
                               <<top4[c].group[k].from, top4[c].group[k].to>>]))]
             fullProgression == [i \in 1..4 |-> chords[((i - 1) % Len(chords)) + 1]]
         IN [sequence |-> [i \in 1..4 |-> [type |-> "chord", notes |-> fullProgression[i]]],
             nodeOrder |-> [i \in 1..4 |-> NumToStr(fullProgression[i][1])]]

generateChordSequence(es) ==
    IF Len(es) = 0 THEN [sequence |-> <<>>, nodeOrder |-> <<>>]
    ELSE LET lines == groupLines(<<>>, es)
             lineInfo == [g \in DOMAIN lines |->
                             [group |-> lines[g], totalLength |-> totalLength(lines[g])]]
             sorted == sortByLength(lineInfo)
             top4 == SubSeq(sorted, 1, IF Len(sorted) < 4 THEN Len(sorted) ELSE 4)
             chords == [c \in DOMAIN top4 |->
                           chordPins(<<>>, Flat([k \in DOMAIN top4[c].group |->
                               <<top4[c].group[k].from, top4[c].group[k].to>>]))]
             fullProgression == [i \in 1..4 |-> chords[((i - 1) % Len(chords)) + 1]]
         IN [sequence |-> [i \in 1..4 |-> [type |-> "chord", notes |-> fullProgression[i]]],
             nodeOrder |-> Flat([i \in 1..4 |->
                             [k \in DOMAIN fullProgression[i] |-> NumToStr(fullProgression[i][k])]])]

\* the switch on track.type of handlePlay and handleTrackEdgesChange
generate(type, es) ==
    IF type = "Phrase" THEN generatePhraseSequence(es)
    ELSE IF type = "Chord" THEN generateChordSequence(es)
    ELSE generateRhythmSequence(es)

(***************************************************************************)
(* Initial values of the App, the grid component and the schedulers        *)
(* (App.tsx 15-33, midiScheduler.ts 9-48, HexagonalTriangleGrid.tsx 204)   *)
(***************************************************************************)
TRACK_COUNT == 4
TrackIds == 0..(TRACK_COUNT - 1)

TRACK_TYPES == {"Rhythm", "Phrase", "Chord"}

\* lastOp: the grid handler or scheduler call that ran last (kind; "none" after
\* any other handler), for a node click the node that was selected before it
\* (from) and the node clicked (node), whether the handler called
\* onEdgesChange (emitted), and the pattern it stopped (stopped, 0: none)
Op(kind, from, node, emitted, stopped) ==
    [kind |-> kind, from |-> from, node |-> node, emitted |-> emitted, stopped |-> stopped]

NoOp == Op("none", Null, Null, FALSE, 0)

AppInit ==
    /\ tracks = [i \in TrackIds |-> [id |-> i, type |-> "Rhythm", edges |-> <<>>, isMuted |-> FALSE]]
    /\ selectedTrackId = 0
    /\ isPlaying = FALSE
    /\ schedulers = [i \in TrackIds |->
                        [type |-> "Rhythm", sequence |-> <<>>, pattern |-> 0, isMuted |-> FALSE]]
    /\ live = [i \in TrackIds |-> {}]
    /\ selectedNodeId = Null
    /\ pendingPlays = <<>>
    /\ lastOp = NoOp

HarnessIdle ==
    /\ pc = "idle"
    /\ arg = <<>>
    /\ ret = <<>>

(***************************************************************************)
(* MidiScheduler (core/midiScheduler.ts)                                   *)
(*                                                                         *)
(* A scheduler is [type, sequence, pattern, isMuted], pattern the identity *)
(* of its Tone.Pattern (0: undefined).  The patterns started on the        *)
(* Transport and not stopped are records [id, values, stepIndex]: values   *)
(* is the array the pattern was built over, stepIndex the counter of its   *)
(* callback.  The methods that touch the Transport take and return the     *)
(* pair o = [s |-> scheduler, live |-> its live patterns].                 *)
(***************************************************************************)
setType(s, type) == [s EXCEPT !.type = type]

load(s, sequence) == [s EXCEPT !.sequence = sequence]

setMuted(s, muted) == [s EXCEPT !.isMuted = muted]

\* if (this.pattern) { this.pattern.stop(); this.pattern.dispose(); this.pattern = undefined; }
disposePattern(o) ==
    IF o.s.pattern # 0
    THEN [s |-> [o.s EXCEPT !.pattern = 0],
          live |-> {p \in o.live : p.id # o.s.pattern}]
    ELSE o

\* the test without its second half: only the empty sequence is skipped
isSilent_emptyOnly(sequence) == Len(sequence) = 0

\* !this.sequence.length || this.sequence.every((v) => v === null)
isSilent(sequence) ==
    Len(sequence) = 0 \/ \A i \in DOMAIN sequence : sequence[i].type = "null"

\* new Tone.Pattern(...): an object distinct from every live one
newPattern(patterns) ==
    CHOOSE k \in 1..(Cardinality(patterns) + 1) :
        /\ \A p \in patterns : p.id # k
        /\ \A j \in 1..(k - 1) : \E p \in patterns : p.id = j

\* attachToTransport from its second `if` on
startPattern(o) ==
    IF isSilent(o.s.sequence) THEN o
    ELSE [s |-> [o.s EXCEPT !.pattern = newPattern(o.live)],
          live |-> o.live \cup {[id |-> newPattern(o.live),
                                 values |-> o.s.sequence,
                                 stepIndex |-> 0]}]

\* attachToTransport that starts the new pattern beside the previous one
attachToTransport_keepPrevious(o) == startPattern(o)

attachToTransport(o) == startPattern(disposePattern(o))

stop(o) == disposePattern(o)

(***************************************************************************)
(* App handlers (App.tsx) and grid handlers (HexagonalTriangleGrid.tsx).   *)
(* The main grid edits the selected track; the tile grids take no pointer  *)
(* events.                                                                 *)
(***************************************************************************)
Obj(id) == [s |-> schedulers[id], live |-> live[id]]

\* scheduler.setType(type); scheduler.load(sequence)
reload(o, type, sequence) == [s |-> load(setType(o.s, type), sequence), live |-> o.live]

\* setTracks, then the `if (isPlaying)` block: stop, setType, load, attachToTransport
handleTrackEdgesChange(id, es) ==
    /\ tracks' = [tracks EXCEPT ![id].edges = es]
    /\ IF isPlaying
       THEN \E sequence \in {generate(tracks[id].type, es).sequence} :
            \E stopped \in {stop(Obj(id))} :
            \E loaded \in {reload(stopped, tracks[id].type, sequence)} :
            \E attached \in {attachToTransport(loaded)} :
               /\ schedulers' = [schedulers EXCEPT ![id] = attached.s]
               /\ live' = [live EXCEPT ![id] = attached.live]
       ELSE UNCHANGED <<schedulers, live>>

\* segments.forEach: push the segments whose key is not yet in existingKeys
appendSegments_noCheck(es, segments) == es \o segments

RECURSIVE appendSegments(_, _)
appendSegments(es, segments) ==
    IF segments = <<>> THEN es
    ELSE IF \E i \in DOMAIN es : es[i].key = Head(segments).key
    THEN appendSegments(es, Tail(segments))
    ELSE appendSegments(Append(es, Head(segments)), Tail(segments))

\* a click on `node` of the main grid; maxEdges bounds the edge list
handleNodeClick(node, maxEdges) ==
    /\ UNCHANGED <<harnessVars, selectedTrackId, isPlaying, pendingPlays>>
    /\ IF selectedNodeId = Null
       THEN /\ selectedNodeId' = node.id
            /\ lastOp' = Op("click", selectedNodeId, node.id, FALSE, 0)
            /\ UNCHANGED <<tracks, schedulers, live>>
       ELSE IF selectedNodeId = node.id
       THEN /\ selectedNodeId' = Null
            /\ lastOp' = Op("click", selectedNodeId, node.id, FALSE, 0)
            /\ UNCHANGED <<tracks, schedulers, live>>
       ELSE IF selectedNodeId \notin DOMAIN nodeMap
       THEN /\ selectedNodeId' = node.id
            /\ lastOp' = Op("click", selectedNodeId, node.id, FALSE, 0)
            /\ UNCHANGED <<tracks, schedulers, live>>
       ELSE \E fromNode \in {nodeMap[selectedNodeId]} :
            IF ~canCreateEdge(fromNode, node)
            THEN /\ selectedNodeId' = node.id
                 /\ lastOp' = Op("click", selectedNodeId, node.id, FALSE, 0)
                 /\ UNCHANGED <<tracks, schedulers, live>>
            ELSE \E segments \in {getEdgeSegments(fromNode, node)} :
                 IF ~segments.valid
                 THEN /\ lastOp' = Op("click", selectedNodeId, node.id, FALSE, 0)
                      /\ UNCHANGED <<selectedNodeId, tracks, schedulers, live>>
                 ELSE \E nextEdges \in {appendSegments(tracks[selectedTrackId].edges,
                                                       segments.segments)} :
                      /\ Len(nextEdges) <= maxEdges
                      /\ handleTrackEdgesChange(selectedTrackId, nextEdges)
                      /\ selectedNodeId' = Null
                      /\ lastOp' = Op("click", selectedNodeId, node.id, TRUE,
                                      IF isPlaying THEN schedulers[selectedTrackId].pattern
                                      ELSE 0)

\* edges.filter((edge) => edge.key !== targetEdge.key)
RECURSIVE filterOutKey(_, _)
filterOutKey(es, key) ==
    IF es = <<>> THEN <<>>
    ELSE IF Head(es).key # key THEN <<Head(es)>> \o filterOutKey(Tail(es), key)
    ELSE filterOutKey(Tail(es), key)

\* a right click on the k-th line of the main grid
handleEdgeContextMenu(k) ==
    /\ k \in DOMAIN tracks[selectedTrackId].edges
    /\ \E nextEdges \in {filterOutKey(tracks[selectedTrackId].edges,
                                      tracks[selectedTrackId].edges[k].key)} :
          handleTrackEdgesChange(selectedTrackId, nextEdges)
    /\ lastOp' = Op("contextmenu", Null, Null, TRUE,
                    IF isPlaying THEN schedulers[selectedTrackId].pattern ELSE 0)
    /\ UNCHANGED <<harnessVars, selectedTrackId, isPlaying, selectedNodeId, pendingPlays>>

\* the track's delete button
ClearButton ==
    /\ IF Len(tracks[selectedTrackId].edges) = 0
       THEN UNCHANGED tracks
       ELSE tracks' = [tracks EXCEPT ![selectedTrackId].edges = <<>>]
    /\ lastOp' = Op("clear", Null, Null, FALSE, 0)
    /\ UNCHANGED <<harnessVars, selectedTrackId, isPlaying, schedulers, live,
                   selectedNodeId, pendingPlays>>

\* the track's mute button
MuteButton ==
    /\ tracks' = [tracks EXCEPT ![selectedTrackId].isMuted = ~tracks[selectedTrackId].isMuted]
    /\ schedulers' = [schedulers EXCEPT
                         ![selectedTrackId] = setMuted(@, ~tracks[selectedTrackId].isMuted)]
    /\ lastOp' = NoOp
    /\ UNCHANGED <<harnessVars, selectedTrackId, isPlaying, live, selectedNodeId, pendingPlays>>

handleTrackTypeChange(id, newType) ==
    /\ tracks' = [tracks EXCEPT ![id].type = newType]
    /\ lastOp' = NoOp
    /\ UNCHANGED <<harnessVars, selectedTrackId, isPlaying, schedulers, live,
                   selectedNodeId, pendingPlays>>

\* a click on the tile of track id
SelectTrack(id) ==
    /\ selectedTrackId' = id
    /\ lastOp' = NoOp
    /\ UNCHANGED <<harnessVars, tracks, isPlaying, schedulers, live, selectedNodeId, pendingPlays>>

\* handlePlay up to `await Tone.start()`: the rest of the call keeps the
\* tracks of the render in which the button was clicked
PlayClick(maxPending) ==
    /\ ~isPlaying
    /\ Len(pendingPlays) < maxPending
    /\ pendingPlays' = Append(pendingPlays, tracks)
    /\ lastOp' = NoOp
    /\ UNCHANGED <<harnessVars, tracks, selectedTrackId, isPlaying, schedulers, live,
                   selectedNodeId>>

\* handlePlay after `await Tone.start()`: tracks.forEach over the tracks of
\* the render of the click: setType, load, attachToTransport unless muted
PlayResume ==
    /\ pendingPlays # <<>>
    /\ \E snapshot \in {Head(pendingPlays)} :
       \E sequences \in {[i \in TrackIds |->
                            generate(snapshot[i].type, snapshot[i].edges).sequence]} :
       \E loaded \in {[i \in TrackIds |-> reload(Obj(i), snapshot[i].type, sequences[i])]} :
       \E played \in {[i \in TrackIds |->
                         IF ~snapshot[i].isMuted THEN attachToTransport(loaded[i])
                         ELSE loaded[i]]} :
          /\ schedulers' = [i \in TrackIds |-> played[i].s]
          /\ live' = [i \in TrackIds |-> played[i].live]
    /\ isPlaying' = TRUE
    /\ pendingPlays' = Tail(pendingPlays)
    /\ lastOp' = NoOp
    /\ UNCHANGED <<harnessVars, tracks, selectedTrackId, selectedNodeId>>

\* handleStop: schedulers.forEach((s) => s.stop())
handleStop ==
    /\ isPlaying
    /\ \E stopped \in {[i \in TrackIds |-> stop(Obj(i))]} :
          /\ schedulers' = [i \in TrackIds |-> stopped[i].s]
          /\ live' = [i \in TrackIds |-> stopped[i].live]
    /\ isPlaying' = FALSE
    /\ lastOp' = NoOp
    /\ UNCHANGED <<harnessVars, tracks, selectedTrackId, selectedNodeId, pendingPlays>>

(***************************************************************************)
(* SegSpec: getEdgeSegments applied to every ordered pair of grid nodes    *)
(***************************************************************************)
SegInit ==
    /\ pc = "call"
    /\ arg \in [from : AllNodeSet, to : AllNodeSet]
    /\ ret = Invalid
    /\ AppInit

SegApply ==
    /\ pc = "call"
    /\ pc' = "done"
    /\ ret' = getEdgeSegments(arg.from, arg.to)
    /\ UNCHANGED <<arg, appVars>>

SegNext == SegApply

SegSpec == SegInit /\ [][SegNext]_vars

\* the six unit steps of the triangular lattice, as (dx, dy / VERTICAL_SPACING)
UnitSteps ==
    {<<HORIZONTAL_SPACING, 0>>, <<-HORIZONTAL_SPACING, 0>>,
     <<HORIZONTAL_SPACING \div 2, 1>>, <<HORIZONTAL_SPACING \div 2, -1>>,
     <<-(HORIZONTAL_SPACING \div 2), 1>>, <<-(HORIZONTAL_SPACING \div 2), -1>>}

\* `to` lies k unit steps from `from` along the lattice direction d
StepsApart(from, to, k, d) ==
    /\ to.x = from.x + k * d[1]
    /\ to.yv = from.yv + k * d[2]

\* segs is a chain of k unit edges of the base grid walking from `from` to `to`
IsChain(segs, from, to, k) ==
    /\ Len(segs) = k
    /\ segs[1].from = from
    /\ segs[k].to = to
    /\ \A i \in 1..(k - 1) : segs[i + 1].from = segs[i].to
    /\ \A i \in 1..k :
          /\ segs[i].key \in baseEdgeKeys
          /\ segs[i].key = createEdgeKey(segs[i].from, segs[i].to)
          /\ \E d \in UnitSteps : StepsApart(segs[i].from, segs[i].to, 1, d)

\* C5: two grid nodes k >= 1 unit steps apart along a base-grid direction
\* decompose into exactly k base edges in walk order, from `from` to `to`.
C5_ChainOfK ==
    pc = "done" =>
        \A k \in 1..MaxGridSteps : \A d \in UnitSteps :
            StepsApart(arg.from, arg.to, k, d) =>
                ret.valid /\ IsChain(ret.segments, arg.from, arg.to, k)

C5_Witness ==
    /\ pc = "done"
    /\ \E d \in UnitSteps : StepsApart(arg.from, arg.to, 3, d)
    /\ ret.valid
    /\ Len(ret.segments) = 3

(***************************************************************************)
(* Bounded inputs of the pure functions                                    *)
(***************************************************************************)
\* the lists of at most maxLen edges of `choices`, no key twice
RECURSIVE EdgeListsOfLen(_, _)
EdgeListsOfLen(choices, n) ==
    IF n = 0 THEN {<<>>}
    ELSE {Append(l, e) : <<l, e>> \in
            {<<l, e>> \in EdgeListsOfLen(choices, n - 1) \X choices :
                \A i \in DOMAIN l : l[i].key # e.key}}

EdgeLists(choices, maxLen) == UNION {EdgeListsOfLen(choices, n) : n \in 0..maxLen}

\* the list with the entries at positions i and i + 1 exchanged
SwapAt(l, i) ==
    [k \in DOMAIN l |-> IF k = i THEN l[i + 1] ELSE IF k = i + 1 THEN l[i] ELSE l[k]]

(***************************************************************************)
(* PingSpec: pingPongToLength on every path of at most MaxPathLen ids and  *)
(* every targetLength up to MaxTarget                                      *)
(***************************************************************************)
MaxPathLen == 3
MaxTarget == 7

PingIds == {<<64 + i>> : i \in 1..MaxPathLen}
PingPaths == UNION {[1..n -> PingIds] : n \in 0..MaxPathLen}

PingInit ==
    /\ pc = "call"
    /\ arg \in [path : PingPaths, targetLength : 0..MaxTarget]
    /\ ret = <<>>
    /\ AppInit

PingApply ==
    /\ pc = "call"
    /\ pc' = "done"
    /\ ret' = pingPongToLength(arg.path, arg.targetLength)
    /\ UNCHANGED <<arg, appVars>>

PingNext == PingApply

PingSpec == PingInit /\ [][PingNext]_vars

\* C8: a non-empty path is resampled to exactly targetLength entries (none
\* for 0), the empty path to the empty sequence whatever targetLength is.
C8_ExactLength ==
    pc = "done" =>
        /\ Len(arg.path) > 0 => Len(ret) = arg.targetLength
        /\ Len(arg.path) = 0 => ret = <<>>

C8_Witness ==
    /\ pc = "done"
    /\ Len(arg.path) = 3
    /\ arg.targetLength = 7
    /\ Len(ret) = 7

\* C9: every entry of the resampling of a single-node path is that node.
C9_SingleNodeRepeats ==
    (pc = "done" /\ Len(arg.path) = 1 /\ arg.targetLength >= 1) =>
        \A i \in DOMAIN ret : ret[i] = arg.path[1]

(***************************************************************************)
(* TrailSpec: buildAdjacency and longestTrail on every list of at most     *)
(* MaxGraphEdges distinct edges between MaxGraphNodes nodes                *)
(***************************************************************************)
MaxGraphNodes == 4
MaxGraphEdges == 4

GraphNodes == {[id |-> <<64 + i>>] : i \in 1..MaxGraphNodes}
GraphEdgeChoices == {GridEdge(a, b) : <<a, b>> \in {p \in GraphNodes \X GraphNodes : p[1] # p[2]}}

TrailInit ==
    /\ pc = "call"
    /\ arg \in [edges : EdgeLists(GraphEdgeChoices, MaxGraphEdges)]
    /\ ret = <<>>
    /\ AppInit

TrailApply ==
    /\ pc = "call"
    /\ pc' = "done"
    /\ ret' = longestTrail(buildAdjacency(arg.edges))
    /\ UNCHANGED <<arg, appVars>>

TrailNext == TrailApply

TrailSpec == TrailInit /\ [][TrailNext]_vars

\* the neighbours of id in a list of edges, and the simple paths of n nodes
NeighboursIn(es, id) ==
    {es[i].to.id : i \in {j \in DOMAIN es : es[j].from.id = id}}
    \cup {es[i].from.id : i \in {j \in DOMAIN es : es[j].to.id = id}}

RECURSIVE SimplePathsOfLen(_, _)
SimplePathsOfLen(es, n) ==
    IF n = 1 THEN {<<es[i].from.id>> : i \in DOMAIN es} \cup {<<es[i].to.id>> : i \in DOMAIN es}
    ELSE UNION {{Append(p, v) : v \in NeighboursIn(es, p[Len(p)]) \ SeqRange(p)} :
                   p \in SimplePathsOfLen(es, n - 1)}

IsSimplePath(es, p) ==
    /\ \A i, j \in DOMAIN p : i # j => p[i] # p[j]
    /\ \A i \in 1..(Len(p) - 1) : p[i + 1] \in NeighboursIn(es, p[i])

\* C6: longestTrail returns a simple path (distinct ids, consecutive ids
\* neighbours) and no simple path of the graph has more nodes.
C6_LongestSimplePath ==
    pc = "done" =>
        /\ IsSimplePath(arg.edges, ret)
        /\ (arg.edges # <<>>) => Len(ret) >= 2
        /\ SimplePathsOfLen(arg.edges, Len(ret) + 1) = {}

FourCycle(es) ==
    /\ Len(es) = 4
    /\ {es[i].key : i \in DOMAIN es} =
          {<<65, CH_dash, 66>>, <<66, CH_dash, 67>>, <<67, CH_dash, 68>>, <<65, CH_dash, 68>>}

C6_Witness ==
    /\ pc = "done"
    /\ FourCycle(arg.edges)
    /\ Len(ret) = 4

(***************************************************************************)
(* GenSpec: the generators on every User Edge Set of at most MaxGenEdges   *)
(* unit edges (either walk direction) among the grid nodes of rows         *)
(* 0..GenMaxRow and columns 0..GenMaxCol                                   *)
(***************************************************************************)
GenMaxRow == 1
GenMaxCol == 2
MaxGenEdges == 3

GenNodes == {n \in AllNodeSet : n.row <= GenMaxRow /\ n.col <= GenMaxCol}
GenEdgeChoices ==
    {GridEdge(p[1], p[2]) : p \in {q \in GenNodes \X GenNodes : createEdgeKey(q[1], q[2]) \in baseEdgeKeys}}

GenInit ==
    /\ pc = "call"
    /\ arg \in [edges : EdgeLists(GenEdgeChoices, MaxGenEdges)]
    /\ ret = <<>>
    /\ AppInit

GenApply ==
    /\ pc = "call"
    /\ pc' = "done"
    /\ ret' = [path |-> longestTrail(buildAdjacency(arg.edges)),
               degreeMap |-> computeDegreeMap(arg.edges),
               Rhythm |-> generateRhythmSequence(arg.edges),
               Phrase |-> generatePhraseSequence(arg.edges),
               Chord |-> generateChordSequence(arg.edges)]
    /\ UNCHANGED <<arg, appVars>>

GenNext == GenApply

GenSpec == GenInit /\ [][GenNext]_vars

\* C7 as claimed: exchanging two neighbouring edges of the list (and so any
\* reordering) leaves the longest trail and the Rhythm and Phrase outputs
\* unchanged.
C7_OrderIrrelevant ==
    pc = "done" =>
        \A i \in 1..(Len(arg.edges) - 1) :
            /\ longestTrail(buildAdjacency(SwapAt(arg.edges, i))) = ret.path
            /\ generateRhythmSequence(SwapAt(arg.edges, i)) = ret.Rhythm
            /\ generatePhraseSequence(SwapAt(arg.edges, i)) = ret.Phrase

\* C7 amended: a reordering keeps the number of nodes of the longest trail
\* and the degree of every node; the trail's node sequence may change.
C7_OrderKeepsLengthAndDegree ==
    pc = "done" =>
        \A i \in 1..(Len(arg.edges) - 1) :
            /\ Len(longestTrail(buildAdjacency(SwapAt(arg.edges, i)))) = Len(ret.path)
            /\ computeDegreeMap(SwapAt(arg.edges, i)) = ret.degreeMap

C7_Witness ==
    /\ pc = "done"
    /\ Len(arg.edges) = 3
    /\ Len(ret.path) = 3
    /\ \E i \in 1..2 : longestTrail(buildAdjacency(SwapAt(arg.edges, i))) # ret.path

\* C10 as claimed: Rhythm and Phrase return 64 entries for every edge set.
C10_Always64 ==
    pc = "done" =>
        /\ Len(ret.Rhythm.sequence) = SEQUENCE_LENGTH
        /\ Len(ret.Rhythm.nodeOrder) = SEQUENCE_LENGTH
        /\ Len(ret.Phrase.sequence) = SEQUENCE_LENGTH
        /\ Len(ret.Phrase.nodeOrder) = SEQUENCE_LENGTH

\* C10 amended: 64 entries for every edge set with at least one edge, none
\* for the empty edge set.
C10_64UnlessEmpty ==
    pc = "done" =>
        LET n == IF arg.edges = <<>> THEN 0 ELSE SEQUENCE_LENGTH
        IN /\ Len(ret.Rhythm.sequence) = n
           /\ Len(ret.Rhythm.nodeOrder) = n
           /\ Len(ret.Phrase.sequence) = n
           /\ Len(ret.Phrase.nodeOrder) = n

C10_Witness ==
    /\ pc = "done"
    /\ Len(arg.edges) = 1
    /\ Len(ret.path) = 2
    /\ Len(ret.Rhythm.sequence) = SEQUENCE_LENGTH
    /\ Len(ret.Phrase.nodeOrder) = SEQUENCE_LENGTH

(***************************************************************************)
(* SchedSpec: one MidiScheduler under every order of its public calls and  *)
(* of the ticks of its patterns                                            *)
(***************************************************************************)
MaxSeqLen == 2
MaxStepIndex == 2

SchedEvents ==
    {Rest, [type |-> "drum", hit |-> "kick"],
     [type |-> "note", note |-> 60, velocity |-> [num |-> 3, den |-> 6]]}

SchedSequences == UNION {[1..n -> SchedEvents] : n \in 0..MaxSeqLen}

SchedInit ==
    /\ HarnessIdle
    /\ AppInit

SchedSetType ==
    /\ \E type \in TRACK_TYPES :
          schedulers' = [schedulers EXCEPT ![0] = setType(@, type)]
    /\ lastOp' = Op("setType", Null, Null, FALSE, 0)
    /\ UNCHANGED <<harnessVars, tracks, selectedTrackId, isPlaying, live, selectedNodeId,
                   pendingPlays>>

SchedLoad ==
    /\ \E sequence \in SchedSequences :
          schedulers' = [schedulers EXCEPT ![0] = load(@, sequence)]
    /\ lastOp' = Op("load", Null, Null, FALSE, 0)
    /\ UNCHANGED <<harnessVars, tracks, selectedTrackId, isPlaying, live, selectedNodeId,
                   pendingPlays>>

SchedSetMuted ==
    /\ \E muted \in BOOLEAN :
          schedulers' = [schedulers EXCEPT ![0] = setMuted(@, muted)]
    /\ lastOp' = Op("setMuted", Null, Null, FALSE, 0)
    /\ UNCHANGED <<harnessVars, tracks, selectedTrackId, isPlaying, live, selectedNodeId,
                   pendingPlays>>

SchedAttach ==
    /\ schedulers' = [schedulers EXCEPT ![0] = attachToTransport(Obj(0)).s]
    /\ live' = [live EXCEPT ![0] = attachToTransport(Obj(0)).live]
    /\ lastOp' = Op("attachToTransport", Null, Null, FALSE, schedulers[0].pattern)
    /\ UNCHANGED <<harnessVars, tracks, selectedTrackId, isPlaying, selectedNodeId, pendingPlays>>

SchedStop ==
    /\ schedulers' = [schedulers EXCEPT ![0] = stop(Obj(0)).s]
    /\ live' = [live EXCEPT ![0] = stop(Obj(0)).live]
    /\ lastOp' = Op("stop", Null, Null, FALSE, schedulers[0].pattern)
    /\ UNCHANGED <<harnessVars, tracks, selectedTrackId, isPlaying, selectedNodeId, pendingPlays>>

\* the callback of a live pattern: this.callback?.(stepIndex), the trigger
\* of the synth unless muted or a rest, stepIndex++
PatternStep ==
    /\ \E p \in live[0] :
          /\ p.stepIndex < MaxStepIndex
          /\ live' = [live EXCEPT ![0] = (@ \ {p}) \cup {[p EXCEPT !.stepIndex = @ + 1]}]
    /\ lastOp' = Op("step", Null, Null, FALSE, 0)
    /\ UNCHANGED <<harnessVars, tracks, selectedTrackId, isPlaying, schedulers, selectedNodeId,
                   pendingPlays>>

SchedNext ==
    \/ SchedSetType
    \/ SchedLoad
    \/ SchedSetMuted
    \/ SchedAttach
    \/ SchedStop
    \/ PatternStep

SchedSpec == SchedInit /\ [][SchedNext]_vars

\* C2: every scheduler has at most one live pattern, and a live pattern is
\* the one the scheduler holds: the previous one was stopped before the new
\* one started.
C2_AtMostOneLive ==
    \A t \in TrackIds :
        /\ Cardinality(live[t]) <= 1
        /\ \A p \in live[t] : p.id = schedulers[t].pattern

\* attachToTransport was called with a pattern live and left a new one live
C2_Witness ==
    /\ lastOp.kind = "attachToTransport"
    /\ lastOp.stopped # 0
    /\ Cardinality(live[0]) = 1
    /\ \E p \in live[0] : p.stepIndex = 0 /\ p.values = schedulers[0].sequence

(***************************************************************************)
(* GridSpec: the main grid on track 0, playback stopped: node clicks in a  *)
(* corner of the grid, right clicks on lines, the track's delete button    *)
(***************************************************************************)
GridMaxRow == 1
GridMaxCol == 2
MaxGridEdges == 2

GridClickNodes == {n \in AllNodeSet : n.row <= GridMaxRow /\ n.col <= GridMaxCol}

GridInit ==
    /\ HarnessIdle
    /\ AppInit

GridNodeClick == \E node \in GridClickNodes : handleNodeClick(node, MaxGridEdges)

GridEdgeContextMenu == \E k \in 1..MaxGridEdges : handleEdgeContextMenu(k)

GridNext ==
    \/ GridNodeClick
    \/ GridEdgeContextMenu
    \/ ClearButton

GridSpec == GridInit /\ [][GridNext]_vars

\* C3: every edge of every track carries the canonical key of its end
\* nodes, that key is a key of the base grid, no key occurs twice, and the
\* degree map counts each node once per edge key.
C3_KeysValidAndUnique ==
    \A t \in TrackIds :
        /\ \A i \in DOMAIN tracks[t].edges :
              /\ tracks[t].edges[i].key \in baseEdgeKeys
              /\ tracks[t].edges[i].key
                     = createEdgeKey(tracks[t].edges[i].from, tracks[t].edges[i].to)
              /\ \A j \in DOMAIN tracks[t].edges :
                    tracks[t].edges[i].key = tracks[t].edges[j].key => i = j
        /\ \A n \in AllNodeSet :
              mapGet(computeDegreeMap(tracks[t].edges), n.id)
                  = Cardinality({tracks[t].edges[i].key : i \in
                        {i \in DOMAIN tracks[t].edges :
                            n.id \in {tracks[t].edges[i].from.id, tracks[t].edges[i].to.id}}})

\* a two-step gesture whose second segment was already in the set: only the
\* first segment was pushed
C3_Witness ==
    /\ lastOp.kind = "click"
    /\ lastOp.emitted
    /\ Len(getEdgeSegments(nodeMap[lastOp.from], nodeMap[lastOp.node]).segments) = 2
    /\ tracks[0].edges
           = <<getEdgeSegments(nodeMap[lastOp.from], nodeMap[lastOp.node]).segments[2],
               getEdgeSegments(nodeMap[lastOp.from], nodeMap[lastOp.node]).segments[1]>>

\* `to` lies a whole number of unit steps, at least one, from `from`
HasDecomposition(from, to) ==
    \E k \in 1..MaxGridSteps : \E d \in UnitSteps : StepsApart(from, to, k, d)

\* C4: a click that completes a gesture between two nodes that are not a
\* whole number of unit steps apart along a grid direction (the same node
\* included) gets the invalid result from getEdgeSegments, leaves every
\* track's edges as they were and does not call onEdgesChange.
C4_InvalidGestureChangesNothing ==
    [][(/\ lastOp'.kind = "click"
        /\ selectedNodeId # Null
        /\ ~HasDecomposition(nodeMap[selectedNodeId], nodeMap[lastOp'.node]))
       => (/\ getEdgeSegments(nodeMap[selectedNodeId], nodeMap[lastOp'.node]) = Invalid
           /\ tracks' = tracks
           /\ ~lastOp'.emitted)]_vars

\* a click on a node in a direction the grid does not have, with an edge drawn
C4_Witness ==
    /\ lastOp.kind = "click"
    /\ lastOp.from # Null
    /\ lastOp.from # lastOp.node
    /\ ~HasDecomposition(nodeMap[lastOp.from], nodeMap[lastOp.node])
    /\ ~lastOp.emitted
    /\ selectedNodeId = lastOp.node
    /\ tracks[0].edges # <<>>

(***************************************************************************)
(* AppSpec: the App with playback: the first tracks selectable, clicks on  *)
(* the first nodes of row 0                                                *)
(***************************************************************************)
AppMaxTrack == 0
AppMaxCol == 1
AppMaxEdges == 1
MaxPendingPlays == 1

AppClickNodes == {n \in AllNodeSet : n.row = 0 /\ n.col <= AppMaxCol}

AppSpecInit ==
    /\ HarnessIdle
    /\ AppInit

AppNodeClick == \E node \in AppClickNodes : handleNodeClick(node, AppMaxEdges)

AppEdgeContextMenu == \E k \in 1..AppMaxEdges : handleEdgeContextMenu(k)

AppTrackTypeChange == \E type \in TRACK_TYPES : handleTrackTypeChange(selectedTrackId, type)

AppSelectTrack == \E id \in 0..AppMaxTrack : SelectTrack(id)

AppPlayClick == PlayClick(MaxPendingPlays)

AppNext ==
    \/ AppNodeClick
    \/ AppEdgeContextMenu
    \/ ClearButton
    \/ MuteButton
    \/ AppTrackTypeChange
    \/ AppSelectTrack
    \/ AppPlayClick
    \/ PlayResume
    \/ handleStop

AppSpec == AppSpecInit /\ [][AppNext]_vars

\* C1: while playback is active, a step that changes a track's edges leaves
\* in that track's scheduler the sequence its generator gives for the new
\* edges.
C1_EditReplacesSequence ==
    [][\A t \in TrackIds :
          (isPlaying /\ tracks'[t].edges # tracks[t].edges)
              => schedulers'[t].sequence
                     = generate(tracks'[t].type, tracks'[t].edges).sequence]_vars

(***************************************************************************)
(* HubSpec: the Rhythm and Phrase generators on the stars around a hub:    *)
(* every unit edge at the hub absent, drawn outwards, drawn inwards or      *)
(* listed in both directions.  The hub is the centre node of the grid or a *)
(* node with the same neighbours whose (row, col) the pitch table lacks.   *)
(***************************************************************************)
HubNode == nodeMap[<<CH_r, CH_0 + 3, CH_c, CH_0 + 3>>]

OffTableHub ==
    [id |-> <<CH_r, CH_0 + 7, CH_c, CH_0 + 3>>, x |-> HubNode.x, yv |-> HubNode.yv,
     row |-> 7, col |-> 3]

\* the positions in allNodes of the neighbours of the hub, and the k-th of them
HubSpokeIndexes == {i \in DOMAIN allNodes : createEdgeKey(HubNode, allNodes[i]) \in baseEdgeKeys}

HubSpoke(k) ==
    allNodes[CHOOSE i \in HubSpokeIndexes :
                 Cardinality({j \in HubSpokeIndexes : j < i}) = k - 1]

SpokeEdges(hub, k, how) ==
    IF how = "out" THEN <<GridEdge(hub, HubSpoke(k))>>
    ELSE IF how = "in" THEN <<GridEdge(HubSpoke(k), hub)>>
    ELSE IF how = "both" THEN <<GridEdge(hub, HubSpoke(k)), GridEdge(HubSpoke(k), hub)>>
    ELSE <<>>

HubEdgeLists ==
    {Flat([k \in 1..Cardinality(HubSpokeIndexes) |-> SpokeEdges(c.hub, k, c.how[k])]) :
        c \in [hub : {HubNode, OffTableHub},
               how : [1..Cardinality(HubSpokeIndexes) -> {"none", "out", "in", "both"}]]}

HubInit ==
    /\ pc = "call"
    /\ arg \in [edges : HubEdgeLists]
    /\ ret = <<>>
    /\ AppInit

HubApply ==
    /\ pc = "call"
    /\ pc' = "done"
    /\ ret' = [Rhythm |-> generateRhythmSequence(arg.edges),
               Phrase |-> generatePhraseSequence(arg.edges)]
    /\ UNCHANGED <<arg, appVars>>

HubNext == HubApply

HubSpec == HubInit /\ [][HubNext]_vars

\* the number of edge ends of the list at node id
EndsAt(es, id) ==
    Cardinality({j \in DOMAIN es : es[j].from.id = id})
    + Cardinality({j \in DOMAIN es : es[j].to.id = id})

\* the nodes of the list with the given id
NodesOf(es, id) ==
    {es[j].from : j \in {k \in DOMAIN es : es[k].from.id = id}}
    \cup {es[j].to : j \in {k \in DOMAIN es : es[k].to.id = id}}

DrumOf(d) ==
    IF d <= 2 THEN Rest
    ELSE [type |-> "drum",
          hit |-> IF d = 3 THEN "kick" ELSE IF d = 4 THEN "snare"
                  ELSE IF d = 5 THEN "clap" ELSE "hihat"]

\* C11: every position of the Rhythm output holds the event fixed by the
\* degree of its node: rest up to 2, kick 3, snare 4, clap 5, hihat from 6.
C11_RhythmByDegree ==
    pc = "done" =>
        /\ DOMAIN ret.Rhythm.sequence = DOMAIN ret.Rhythm.nodeOrder
        /\ \A i \in DOMAIN ret.Rhythm.nodeOrder :
              ret.Rhythm.sequence[i] = DrumOf(EndsAt(arg.edges, ret.Rhythm.nodeOrder[i]))

\* the hub has degree exactly 6, is on the trail and sounds as hihat
C11_Witness ==
    /\ pc = "done"
    /\ EndsAt(arg.edges, HubNode.id) = 6
    /\ \E i \in DOMAIN ret.Rhythm.nodeOrder :
          /\ ret.Rhythm.nodeOrder[i] = HubNode.id
          /\ ret.Rhythm.sequence[i] = [type |-> "drum", hit |-> "hihat"]

\* the pitch table's entry for (row, col), NoNote where it has none
PitchAt(row, col) ==
    IF row + 1 \in DOMAIN noteMapLayout /\ col + 1 \in DOMAIN noteMapLayout[row + 1]
    THEN noteMapLayout[row + 1][col + 1]
    ELSE NoNote

NoteOf(node, d) ==
    IF d <= 2 \/ PitchAt(node.row, node.col) = NoNote THEN Rest
    ELSE [type |-> "note", note |-> PitchAt(node.row, node.col),
          velocity |-> [num |-> IF d <= 6 THEN d ELSE 6, den |-> 6]]

\* C12: every position of the Phrase output is a rest when its node has
\* degree up to 2 or no pitch in the table, else the note of the node's
\* (row, col) with velocity min(1, d / 6).
C12_PhraseByDegreeAndPitch ==
    pc = "done" =>
        /\ DOMAIN ret.Phrase.sequence = DOMAIN ret.Phrase.nodeOrder
        /\ \A i \in DOMAIN ret.Phrase.nodeOrder :
              \A node \in NodesOf(arg.edges, ret.Phrase.nodeOrder[i]) :
                  ret.Phrase.sequence[i]
                      = NoteOf(node, EndsAt(arg.edges, ret.Phrase.nodeOrder[i]))

\* the hub sounds its pitch at full velocity with more than 6 edge ends
C12_Witness ==
    /\ pc = "done"
    /\ EndsAt(arg.edges, HubNode.id) > 6
    /\ \E i \in DOMAIN ret.Phrase.nodeOrder :
          /\ ret.Phrase.nodeOrder[i] = HubNode.id
          /\ ret.Phrase.sequence[i]
                 = [type |-> "note", note |-> PitchAt(3, 3), velocity |-> [num |-> 6, den |-> 6]]

\* a hub the pitch table lacks, of degree 3 or more, is on the trail as a rest
OffTableHubRests ==
    /\ pc = "done"
    /\ EndsAt(arg.edges, OffTableHub.id) >= 3
    /\ \E i \in DOMAIN ret.Phrase.nodeOrder :
          /\ ret.Phrase.nodeOrder[i] = OffTableHub.id
          /\ ret.Phrase.sequence[i] = Rest

(***************************************************************************)
(* The Chord generator on the edge lists of GenSpec                        *)
(***************************************************************************)
\* two edges have the same or opposite direction: the cross product of
\* their vectors is zero
Parallel(e, f) ==
    (e.to.x - e.from.x) * (f.to.yv - f.from.yv) = (f.to.x - f.from.x) * (e.to.yv - e.from.yv)

\* the direction clusters of an edge list, as sets of edges
Clusters(es) == {{f \in SeqRange(es) : Parallel(e, f)} : e \in SeqRange(es)}

\* the sum of the lengths of a set of edges, in pixels
RECURSIVE ClusterLength(_)
ClusterLength(S) ==
    IF S = {} THEN 0
    ELSE LET e == CHOOSE f \in S : TRUE
         IN Hypot(e.to.x - e.from.x, e.to.yv - e.from.yv) + ClusterLength(S \ {e})

\* the pitches the table gives for the end nodes of a set of edges
ClusterPitches(S) ==
    {PitchAt(n.row, n.col) : n \in {e.from : e \in S} \cup {e.to : e \in S}} \ {NoNote}

\* the rankings of the clusters, longest first: rank 0..c-1 -> cluster
Rankings(es) ==
    {r \in [0..(Cardinality(Clusters(es)) - 1) -> Clusters(es)] :
        /\ \A a, b \in DOMAIN r : a # b => r[a] # r[b]
        /\ \A a, b \in DOMAIN r : a < b => ClusterLength(r[a]) >= ClusterLength(r[b])}

Min(a, b) == IF a < b THEN a ELSE b

\* C13: for a non-empty edge set with c direction clusters the Chord
\* generator returns exactly 4 chord events, and event i (from 0) holds,
\* each once, the table pitches of the end nodes of the cluster of rank
\* i mod min(c, 4), the clusters ranked by total edge length, longest first;
\* a longer and a shorter cluster give long, short, long, short.
C13_ChordByClusterRank ==
    (pc = "done" /\ arg.edges # <<>>) =>
        /\ Len(ret.Chord.sequence) = 4
        /\ \E r \in Rankings(arg.edges) :
              \A i \in 0..3 :
                 LET ev == ret.Chord.sequence[i + 1]
                 IN /\ ev.type = "chord"
                    /\ SeqRange(ev.notes) = ClusterPitches(r[i % Min(Cardinality(Clusters(arg.edges)), 4)])
                    /\ \A a, b \in DOMAIN ev.notes : a # b => ev.notes[a] # ev.notes[b]

\* two clusters, the shorter one drawn first: the progression is long,
\* short, long, short
C13_Witness ==
    /\ pc = "done"
    /\ Len(arg.edges) = 3
    /\ Cardinality(Clusters(arg.edges)) = 2
    /\ ~Parallel(arg.edges[1], arg.edges[2])
    /\ Parallel(arg.edges[2], arg.edges[3])
    /\ LET long == ClusterPitches({arg.edges[2], arg.edges[3]})
           short == ClusterPitches({arg.edges[1]})
       IN /\ long # short
          /\ [i \in 1..4 |-> SeqRange(ret.Chord.sequence[i].notes)] = <<long, short, long, short>>

(***************************************************************************)
(* nodeOrder against sequence, on the edge lists of GenSpec                *)
(***************************************************************************)
\* the ids of the end nodes of an edge list
EndIds(es) == {es[i].from.id : i \in DOMAIN es} \cup {es[i].to.id : i \in DOMAIN es}

\* C14 as claimed: for each of the three generators nodeOrder has as many
\* entries as sequence, 64 for Rhythm and Phrase and 4 for Chord.
C14_NodeOrderParallel ==
    pc = "done" =>
        /\ \A g \in {"Rhythm", "Phrase"} :
              Len(ret[g].sequence) = 64 /\ Len(ret[g].nodeOrder) = 64
        /\ Len(ret.Chord.sequence) = 4 /\ Len(ret.Chord.nodeOrder) = 4

\* C14 amended: for Rhythm and Phrase nodeOrder has as many entries as
\* sequence (64, none for the empty edge set), entry i is the id of an end
\* node of an edge and positions with the same id hold the same event; for
\* Chord the sequence has 4 entries (none for the empty edge set) and
\* nodeOrder is the pitches of the 4 chords one after the other, written as
\* decimal text, so it has as many entries as the chords have pitches.
C14_NodeOrderShape ==
    pc = "done" =>
        /\ \A g \in {"Rhythm", "Phrase"} :
              /\ Len(ret[g].nodeOrder) = Len(ret[g].sequence)
              /\ Len(ret[g].sequence) = IF arg.edges = <<>> THEN 0 ELSE 64
              /\ \A i \in DOMAIN ret[g].nodeOrder :
                    /\ ret[g].nodeOrder[i] \in EndIds(arg.edges)
                    /\ \A j \in DOMAIN ret[g].nodeOrder :
                          ret[g].nodeOrder[i] = ret[g].nodeOrder[j]
                              => ret[g].sequence[i] = ret[g].sequence[j]
        /\ Len(ret.Chord.sequence) = IF arg.edges = <<>> THEN 0 ELSE 4
        /\ [k \in DOMAIN ret.Chord.nodeOrder |-> parseInt(ret.Chord.nodeOrder[k])]
              = Flat([i \in DOMAIN ret.Chord.sequence |-> ret.Chord.sequence[i].notes])
        /\ \A k \in DOMAIN ret.Chord.nodeOrder :
              /\ Len(ret.Chord.nodeOrder[k]) = 2
              /\ \A p \in DOMAIN ret.Chord.nodeOrder[k] : IsDigit(ret.Chord.nodeOrder[k][p])

\* a non-empty edge set: 4 chords whose nodeOrder has more than 4 entries,
\* next to a Rhythm output of 64 and 64
C14_Witness ==
    /\ pc = "done"
    /\ arg.edges # <<>>
    /\ Len(ret.Chord.sequence) = 4
    /\ Len(ret.Chord.nodeOrder) > 4
    /\ Len(ret.Rhythm.sequence) = 64
    /\ Len(ret.Rhythm.nodeOrder) = 64

(***************************************************************************)
(* The search order of longestTrail, on the edge lists of TrailSpec        *)
(***************************************************************************)
\* the position at which an id first enters the adjacency map: edge by
\* edge, `from` before `to`
NodeRank(es, id) ==
    CHOOSE r \in 1..(2 * Len(es)) :
        /\ (IF r % 2 = 1 THEN es[(r + 1) \div 2].from.id ELSE es[r \div 2].to.id) = id
        /\ \A q \in 1..(r - 1) :
              (IF q % 2 = 1 THEN es[(q + 1) \div 2].from.id ELSE es[q \div 2].to.id) # id

\* the position of v in the neighbour set of u: the index of the first edge
\* that joins them
NbrRank(es, u, v) ==
    CHOOSE i \in DOMAIN es :
        /\ {es[i].from.id, es[i].to.id} = {u, v}
        /\ \A j \in 1..(i - 1) : {es[j].from.id, es[j].to.id} # {u, v}

\* p is reached before q (two different simple paths of the same length) by
\* a depth-first search that tries the start nodes in NodeRank order and the
\* neighbours in NbrRank order
FoundBefore(es, p, q) ==
    LET k == CHOOSE i \in DOMAIN p : p[i] # q[i] /\ \A j \in 1..(i - 1) : p[j] = q[j]
    IN IF k = 1 THEN NodeRank(es, p[1]) < NodeRank(es, q[1])
       ELSE NbrRank(es, p[k - 1], p[k]) < NbrRank(es, p[k - 1], q[k])

\* C15: among the simple paths of maximal length longestTrail returns the
\* one a depth-first search finds first, start nodes in the order the ids
\* entered the adjacency map and neighbours in the order they entered each
\* neighbour set: every other path of that length is found after it.
C15_FirstFoundWins ==
    (pc = "done" /\ arg.edges # <<>>) =>
        /\ ret \in SimplePathsOfLen(arg.edges, Len(ret))
        /\ SimplePathsOfLen(arg.edges, Len(ret) + 1) = {}
        /\ \A q \in SimplePathsOfLen(arg.edges, Len(ret)) \ {ret} : FoundBefore(arg.edges, ret, q)

\* more maximal paths than one path and its reverse, and the one returned
\* starts at a node tried after the first start node
C15_Witness ==
    /\ pc = "done"
    /\ arg.edges # <<>>
    /\ Cardinality(SimplePathsOfLen(arg.edges, Len(ret))) > 2
    /\ ret[1] # arg.edges[1].from.id
    /\ \E q \in SimplePathsOfLen(arg.edges, Len(ret)) : q[1] = ret[1] /\ q # ret

(***************************************************************************)
(* The closed form of pingPongToLength, on the inputs of PingSpec          *)
(***************************************************************************)
\* the (0-based) path index of entry k for a path of L >= 2 nodes
PingIndex(L, k) ==
    LET m == k % (2 * (L - 1))
    IN IF m <= L - 1 THEN m ELSE 2 * (L - 1) - m

\* C16: for a path of L >= 2 nodes, entry k (from 0) of the result is
\* path[j], j = m when m <= L-1 and 2(L-1) - m otherwise, m = k mod 2(L-1);
\* two consecutive entries are neighbouring positions of the path.
C16_PingPongClosedForm ==
    (pc = "done" /\ Len(arg.path) >= 2) =>
        /\ \A k \in 0..(arg.targetLength - 1) :
              /\ k + 1 \in DOMAIN ret
              /\ ret[k + 1] = arg.path[PingIndex(Len(arg.path), k) + 1]
        /\ \A k \in 1..(Len(ret) - 1) :
              \E a, b \in DOMAIN arg.path :
                 /\ ret[k] = arg.path[a]
                 /\ ret[k + 1] = arg.path[b]
                 /\ Abs(a - b) = 1

\* three different nodes emitted forward, back and forward again
C16_Witness ==
    /\ pc = "done"
    /\ Len(arg.path) = 3
    /\ arg.path[1] # arg.path[2] /\ arg.path[2] # arg.path[3] /\ arg.path[1] # arg.path[3]
    /\ arg.targetLength = 7
    /\ ret = <<arg.path[1], arg.path[2], arg.path[3], arg.path[2],
               arg.path[1], arg.path[2], arg.path[3]>>

(***************************************************************************)
(* attachToTransport with nothing to play, in SchedSpec                    *)
(***************************************************************************)
\* no entry of the sequence is an event (the empty sequence included)
OnlyRests(sequence) == \A i \in DOMAIN sequence : sequence[i] = Rest

\* C17: attachToTransport on a scheduler whose loaded sequence is empty or
\* holds only rests leaves the scheduler with no pattern and no live
\* pattern; while no pattern is live no step callback fires, and a pattern
\* becomes live again only through an attachToTransport with a sequence
\* that holds at least one event.
C17_SilentAttachStartsNothing ==
    [][/\ (lastOp'.kind = "attachToTransport" /\ OnlyRests(schedulers[0].sequence))
            => (live'[0] = {} /\ schedulers'[0].pattern = 0)
       /\ live[0] = {} => lastOp'.kind # "step"
       /\ (live[0] = {} /\ live'[0] # {})
            => (lastOp'.kind = "attachToTransport" /\ ~OnlyRests(schedulers'[0].sequence))]_vars

\* attachToTransport with a sequence of rests stopped the pattern that was
\* live and started none
C17_Witness ==
    /\ lastOp.kind = "attachToTransport"
    /\ lastOp.stopped # 0
    /\ schedulers[0].sequence # <<>>
    /\ OnlyRests(schedulers[0].sequence)
    /\ live[0] = {}
    /\ schedulers[0].pattern = 0

(***************************************************************************)
(* ChordSpec: the grouping step and the Chord generator on every list of   *)
(* at most MaxChordEdges unit edges (either walk direction) among the grid *)
(* nodes of rows 0..ChordMaxRow and columns 0..ChordMaxCol, and on every   *)
(* pair of unit edges of the whole grid                                    *)
(***************************************************************************)
ChordMaxRow == 1
ChordMaxCol == 1
MaxChordEdges == 4

ChordNodes == {n \in AllNodeSet : n.row <= ChordMaxRow /\ n.col <= ChordMaxCol}
ChordEdgeChoices ==
    {GridEdge(p[1], p[2]) : p \in {q \in ChordNodes \X ChordNodes : createEdgeKey(q[1], q[2]) \in baseEdgeKeys}}
AllEdgeChoices ==
    {GridEdge(edges[i].from, edges[i].to) : i \in DOMAIN edges}
    \cup {GridEdge(edges[i].to, edges[i].from) : i \in DOMAIN edges}

ChordInit ==
    /\ pc = "call"
    /\ arg \in [edges : EdgeLists(ChordEdgeChoices, MaxChordEdges)
                        \cup EdgeListsOfLen(AllEdgeChoices, 2)]
    /\ ret = <<>>
    /\ AppInit

ChordApply ==
    /\ pc = "call"
    /\ pc' = "done"
    /\ ret' = [lines |-> groupLines(<<>>, arg.edges),
               Chord |-> generateChordSequence(arg.edges)]
    /\ UNCHANGED <<arg, appVars>>

ChordNext == ChordApply

ChordSpec == ChordInit /\ [][ChordNext]_vars

\* two edges lie on one straight line
Collinear(e, f) ==
    /\ Parallel(e, f)
    /\ (e.from.x - f.from.x) * (f.to.yv - f.from.yv) = (f.to.x - f.from.x) * (e.from.yv - f.from.yv)

\* C18: on a User Edge Set of unit edges of the grid the groups the Chord
\* generator forms are the classes of parallel edges, on one straight line
\* or not; there are at most 3 of them, every one of them is the chord of
\* some slot of the progression (the cut to 4 removes none), and two of the
\* 4 slots hold the chord of the same group.
C18_ClustersAreDirections ==
    (pc = "done" /\ arg.edges # <<>>) =>
        /\ \A i \in DOMAIN arg.edges : arg.edges[i].key \in baseEdgeKeys
        /\ {SeqRange(ret.lines[g]) : g \in DOMAIN ret.lines} = Clusters(arg.edges)
        /\ \A g, h \in DOMAIN ret.lines : g # h => SeqRange(ret.lines[g]) # SeqRange(ret.lines[h])
        /\ Len(ret.lines) <= 3
        /\ \A g \in DOMAIN ret.lines :
              \E i \in 1..4 : SeqRange(ret.Chord.sequence[i].notes) = ClusterPitches(SeqRange(ret.lines[g]))
        /\ ret.Chord.sequence[Len(ret.lines) + 1] = ret.Chord.sequence[1]

\* four edges in 3 groups, two parallel edges of different rows in one
\* of them; the fourth slot repeats the first
C18_Witness ==
    /\ pc = "done"
    /\ Len(arg.edges) = 4
    /\ Len(ret.lines) = 3
    /\ \E g \in DOMAIN ret.lines :
          \E a, b \in DOMAIN ret.lines[g] :
             /\ Parallel(ret.lines[g][a], ret.lines[g][b])
             /\ ~Collinear(ret.lines[g][a], ret.lines[g][b])
    /\ ret.Chord.sequence[4] = ret.Chord.sequence[1]
====
